---------------------------- MODULE Spec2Model ----------------------------
(***************************************************************************)
(* A model of parse_jwst_filenames: the filename decoders                  *)
(* (JWSTAssociation.__init__, JWSTProduct.__init__), the membership attach *)
(* step and the suffix resolver of scan_jwst_directory_v2.py and           *)
(* scan_jwst_directory_v3.py.                                              *)
(*                                                                         *)
(* Python strings are sequences of one-character strings, Python lists are *)
(* sequences.  None is the token None, an attribute that was never         *)
(* assigned is the token Unset.                                            *)
(***************************************************************************)
EXTENDS Integers, Sequences, FiniteSets, TLC

VARIABLES
    pc,             \* position of run() / of the decoding harness
    variant,        \* which script runs: "v2" or "v3"
    fs,             \* the scanned directory: product files and manifests
    ref_db,         \* jwstproducts.db: stage table -> suffixes it has a row for
    files,          \* run()'s files: what find_files returned
    asn_objects,    \* v2: list of JWSTAssociation; v3: dict a
    fits_objects,   \* v2: list of JWSTProduct;     v3: dict d
    examined,       \* paths of the products the resolver's loop body ran on
    log,            \* records handed to logging.error / logging.critical
    mem_db,         \* the in-memory database: tables associations, products
    results,        \* run()'s results / r: program -> its bucket
    dec             \* decoding harness: one path, its manifest, the object built

vars == <<pc, variant, fs, ref_db, files, asn_objects, fits_objects, examined,
          log, mem_db, results, dec>>

-----------------------------------------------------------------------------
(* Python values *)

None == <<"None">>
Unset == <<"Unset">>
UnsetList == <<Unset>>

Min(a, b) == IF a < b THEN a ELSE b

Digits == <<"0","1","2","3","4","5","6","7","8","9">>
DigitSet == {Digits[i] : i \in 1..10}
DigitVal(c) == (CHOOSE i \in 1..10 : Digits[i] = c) - 1

Upper == <<"A","B","C","D","E","F","G","H","I","J","K","L","M",
           "N","O","P","Q","R","S","T","U","V","W","X","Y","Z">>
LowerAZ == <<"a","b","c","d","e","f","g","h","i","j","k","l","m",
             "n","o","p","q","r","s","t","u","v","w","x","y","z">>

\* ASCII order of the characters that occur in paths (for sorted()).
Ord(c) ==
    IF c = " " THEN 32
    ELSE IF c = "'" THEN 39
    ELSE IF c = "," THEN 44
    ELSE IF c = "-" THEN 45
    ELSE IF c = "." THEN 46
    ELSE IF c = "/" THEN 47
    ELSE IF c \in DigitSet THEN 48 + DigitVal(c)
    ELSE IF \E i \in 1..26 : Upper[i] = c
         THEN 64 + (CHOOSE i \in 1..26 : Upper[i] = c)
    ELSE IF c = "[" THEN 91
    ELSE IF c = "]" THEN 93
    ELSE IF c = "_" THEN 95
    ELSE 96 + (CHOOSE i \in 1..26 : LowerAZ[i] = c)

\* s < t for Python strings (lexicographic by code point).
RECURSIVE StrLess(_, _)
StrLess(s, t) ==
    IF t = <<>> THEN FALSE
    ELSE IF s = <<>> THEN TRUE
    ELSE IF Head(s) = Head(t) THEN StrLess(Tail(s), Tail(t))
    ELSE Ord(Head(s)) < Ord(Head(t))

\* sorted(S) for a set of distinct strings.
RECURSIVE Sorted(_)
Sorted(S) ==
    IF S = {} THEN <<>>
    ELSE LET m == CHOOSE x \in S : \A y \in S \ {x} : StrLess(x, y)
         IN <<m>> \o Sorted(S \ {m})

\* s[a:b] with 0 <= a, 0 <= b (Python clamps both ends).
Slice(s, a, b) == SubSeq(s, Min(a, Len(s)) + 1, Min(b, Len(s)))

\* s[a:]
SliceFrom(s, a) == SubSeq(s, Min(a, Len(s)) + 1, Len(s))

\* s.split(c): every occurrence of c separates; empty parts are kept.
RECURSIVE Split(_, _)
Split(s, c) ==
    IF \A i \in 1..Len(s) : s[i] # c THEN <<s>>
    ELSE LET k == CHOOSE i \in 1..Len(s) :
                      s[i] = c /\ \A j \in 1..(i - 1) : s[j] # c
         IN <<SubSeq(s, 1, k - 1)>> \o Split(SubSeq(s, k + 1, Len(s)), c)

Last(l) == l[Len(l)]

\* s.startswith(p)
StartsWith(s, p) == Len(s) >= Len(p) /\ SubSeq(s, 1, Len(p)) = p

\* s.isdigit()
IsDigit(s) == Len(s) > 0 /\ \A i \in 1..Len(s) : s[i] \in DigitSet

LowerChar(c) ==
    IF \E i \in 1..26 : Upper[i] = c
    THEN LowerAZ[CHOOSE i \in 1..26 : Upper[i] = c]
    ELSE c

\* s.lower()
RECURSIVE Lower(_)
Lower(s) == IF s = <<>> THEN <<>> ELSE <<LowerChar(Head(s))>> \o Lower(Tail(s))

\* sub in s, for strings
Contains(s, sub) ==
    \E i \in 0..(Len(s) - Len(sub)) : SubSeq(s, i + 1, i + Len(sub)) = sub

\* x in l, for a list l
InList(x, l) == \E i \in 1..Len(l) : l[i] = x

\* str(l) for a list l of strings without quotes or backslashes
RECURSIVE ReprItems(_)
ReprItems(l) ==
    IF l = <<>> THEN <<>>
    ELSE <<"'">> \o Head(l) \o <<"'">>
         \o (IF Len(l) > 1 THEN <<",", " ">> ELSE <<>>)
         \o ReprItems(Tail(l))

StrOfList(l) == <<"[">> \o ReprItems(l) \o <<"]">>

\* flatten a list of lists
RECURSIVE Concat(_)
Concat(ll) == IF ll = <<>> THEN <<>> ELSE Head(ll) \o Concat(Tail(ll))

-----------------------------------------------------------------------------
(* time.strptime(second, '%Y%m%d') and time.strftime("%Y %b %d", t) *)

NonZero == DigitSet \ {"0"}

\* s[i] (1-based), or "" past the end
At(s, i) == IF i >= 1 /\ i <= Len(s) THEN s[i] ELSE ""

\* The regex strptime builds for %m is (1[0-2]|0[1-9]|[1-9]): the lengths of
\* the alternatives that match at position p, in the order the regex tries them.
MonthLens(s, p) ==
    (IF At(s, p) = "1" /\ At(s, p + 1) \in {"0", "1", "2"} THEN <<2>> ELSE <<>>)
    \o (IF At(s, p) = "0" /\ At(s, p + 1) \in NonZero THEN <<2>> ELSE <<>>)
    \o (IF At(s, p) \in NonZero THEN <<1>> ELSE <<>>)

\* The regex for %d is (3[0-1]|[1-2]\d|0[1-9]|[1-9]| [1-9]).
DayLens(s, p) ==
    (IF At(s, p) = "3" /\ At(s, p + 1) \in {"0", "1"} THEN <<2>> ELSE <<>>)
    \o (IF At(s, p) \in {"1", "2"} /\ At(s, p + 1) \in DigitSet THEN <<2>> ELSE <<>>)
    \o (IF At(s, p) = "0" /\ At(s, p + 1) \in NonZero THEN <<2>> ELSE <<>>)
    \o (IF At(s, p) \in NonZero THEN <<1>> ELSE <<>>)
    \o (IF At(s, p) = " " /\ At(s, p + 1) \in NonZero THEN <<2>> ELSE <<>>)

\* int(s) for a string of digits, possibly after one leading blank
RECURSIVE ToInt(_)
ToInt(s) ==
    IF s = <<>> THEN 0
    ELSE IF Last(s) = " " THEN 0
    ELSE 10 * ToInt(SubSeq(s, 1, Len(s) - 1)) + DigitVal(Last(s))

IsLeap(y) == y % 4 = 0 /\ (y % 100 # 0 \/ y % 400 = 0)

DaysIn(y, m) ==
    IF m = 2 THEN (IF IsLeap(y) THEN 29 ELSE 28)
    ELSE IF m \in {4, 6, 9, 11} THEN 30
    ELSE 31

NoTime == [ok |-> FALSE, year |-> 0, month |-> 0, day |-> 0]

\* time.strptime(s, '%Y%m%d'): the regex is matched at the start of s (first
\* match in the regex's own order, not anchored at the end); data left over
\* after the match, or a date the calendar does not have, raises ValueError
\* (ok = FALSE).
Strptime(s) ==
    IF ~(Len(s) >= 4 /\ \A i \in 1..4 : s[i] \in DigitSet) THEN NoTime
    ELSE LET mls == MonthLens(s, 5)
             good == {i \in 1..Len(mls) : DayLens(s, 5 + mls[i]) # <<>>}
         IN IF good = {} THEN NoTime
            ELSE LET i == CHOOSE x \in good : \A z \in good : x <= z
                     ml == mls[i]
                     dl == DayLens(s, 5 + ml)[1]
                     y == ToInt(SubSeq(s, 1, 4))
                     m == ToInt(SubSeq(s, 5, 4 + ml))
                     d == ToInt(SubSeq(s, 5 + ml, 4 + ml + dl))
                 IN IF 4 + ml + dl # Len(s) THEN NoTime
                    ELSE IF y < 1 \/ d > DaysIn(y, m) THEN NoTime
                    ELSE [ok |-> TRUE, year |-> y, month |-> m, day |-> d]

\* str(n) for n >= 0
RECURSIVE NatStr(_)
NatStr(n) ==
    IF n < 10 THEN <<Digits[n + 1]>>
    ELSE NatStr(n \div 10) \o <<Digits[(n % 10) + 1]>>

MonthAbbr ==
    << <<"J","a","n">>, <<"F","e","b">>, <<"M","a","r">>, <<"A","p","r">>,
       <<"M","a","y">>, <<"J","u","n">>, <<"J","u","l">>, <<"A","u","g">>,
       <<"S","e","p">>, <<"O","c","t">>, <<"N","o","v">>, <<"D","e","c">> >>

TwoDigits(n) == <<Digits[(n \div 10) + 1], Digits[(n % 10) + 1]>>

\* time.strftime("%Y %b %d", t), C locale
Strftime(t) ==
    NatStr(t.year) \o <<" ">> \o MonthAbbr[t.month] \o <<" ">> \o TwoDigits(t.day)

-----------------------------------------------------------------------------
(* The association manifest (the .json file behind an association path).   *)
(* readable: open() succeeds; json: json.load() succeeds; has_products:    *)
(* the document has a "products" key; products: its list, each entry with  *)
(* a name and a members list of expname strings; program: the document's   *)
(* "program" value.                                                        *)

Manifest(readable, json, program, has_products, products) ==
    [readable |-> readable, json |-> json, program |-> program,
     has_products |-> has_products, products |-> products]

Product(name, members) == [name |-> name, members |-> members]

\* JWSTAssociation.__init__, the manifest part: members are read from the
\* first entry of the products list only.
ReadMembers(self, file) ==
    IF ~file.readable THEN [self EXCEPT !.raised = "OSError"]
    ELSE IF ~file.json THEN [self EXCEPT !.raised = "JSONDecodeError"]
    ELSE IF ~file.has_products THEN [self EXCEPT !.raised = "KeyError"]
    ELSE IF file.products = <<>> THEN [self EXCEPT !.raised = "IndexError"]
    ELSE [self EXCEPT !.members = file.products[1].members]

NewAssociation(fullpath) ==
    [fullpath |-> fullpath,
     filename |-> Last(Split(fullpath, "/")),
     full |-> Split(Last(Split(fullpath, "/")), ".")[1],
     formatted |-> TRUE,
     program_id |-> Unset, ac_id |-> Unset, datetime |-> Unset,
     pipeline_element |-> Unset, number |-> Unset,
     members |-> UnsetList,
     raised |-> "none"]

\* A slip in the segment-count test: one segment fewer is let through.
TooFewChunksOffByOne(in_chunks) == Len(in_chunks) < 4

\* if len(in_chunks) < 5
TooFewChunks(in_chunks) == Len(in_chunks) < 5

\* A slip in the date handling: the time of day is not cut off before
\* the date is parsed.
DatePartWithTime(second) == second

\* second = second.lower().split('t')[0]
DatePart(second) == Split(Lower(second), "t")[1]

\* JWSTAssociation.__init__(fullpath), with the content of the file at
\* fullpath.  The result is the object's attributes when __init__ ends;
\* raised names the exception that ended it, "none" for a normal return.
JWSTAssociation(fullpath, file) ==
    LET self == NewAssociation(fullpath)
        in_chunks == Split(self.full, "_")
    IN  IF TooFewChunks(in_chunks) THEN [self EXCEPT !.formatted = FALSE]
        ELSE
        LET first == Split(SliceFrom(in_chunks[1], 2), "-")
        IN  IF Len(first) = 1 THEN [self EXCEPT !.formatted = FALSE]
            ELSE
            LET self1 == [self EXCEPT !.program_id = first[1],
                                      !.ac_id = first[2]]
                second == DatePart(in_chunks[2])
                t == Strptime(second)
            IN  IF ~t.ok THEN [self1 EXCEPT !.raised = "ValueError"]
                ELSE ReadMembers(
                        [self1 EXCEPT !.datetime = Strftime(t),
                                      !.pipeline_element = in_chunks[3],
                                      !.number = in_chunks[4]],
                        file)

-----------------------------------------------------------------------------
(* JWSTProduct.__init__ *)

NA == <<"N", "/", "A">>
Unknown == <<"U","n","k","n","o","w","n">>
t_ == <<"t">>
s_ == <<"s">>

NewProduct(fullpath) ==
    [fullpath |-> fullpath,
     filename |-> Last(Split(fullpath, "/")),
     full |-> Split(Last(Split(fullpath, "/")), ".")[1],
     formatted |-> FALSE,
     program_id |-> Unset, obs_number |-> Unset, visit_number |-> Unset,
     asn_number |-> Unset,
     target_id |-> Unset, source_id |-> Unset, visit_group |-> Unset,
     parallel_seq |-> Unset, activity_number |-> Unset,
     exposure_number |-> Unset, instrument |-> Unset,
     detector |-> Unset, optical_elements |-> Unset,
     suffix |-> Unset,
     description |-> Unset, units |-> Unset, level |-> Unset,
     pipeline |-> Unset, member_of |-> Unset,
     raised |-> "none"]

\* A slip in the fixed-width slicing: the program id is cut one character
\* short.
ProductFirstShifted(self, in_chunks) ==
    LET first == Split(in_chunks[1], "-")
    IN  IF Len(first) = 1
        THEN [self EXCEPT !.program_id = Slice(first[1], 2, 6),
                          !.obs_number = Slice(first[1], 7, 10),
                          !.visit_number = Slice(first[1], 10, 13),
                          !.asn_number = None]
        ELSE [self EXCEPT !.program_id = SliceFrom(first[1], 2),
                          !.asn_number = first[2],
                          !.obs_number = None,
                          !.visit_number = None]

\* A slip in the association-derived branch: the observation and visit
\* numbers are sliced there too instead of being set to None.
ProductFirstKeepsObs(self, in_chunks) ==
    LET first == Split(in_chunks[1], "-")
    IN  IF Len(first) = 1
        THEN [self EXCEPT !.program_id = Slice(first[1], 2, 7),
                          !.obs_number = Slice(first[1], 7, 10),
                          !.visit_number = Slice(first[1], 10, 13),
                          !.asn_number = None]
        ELSE [self EXCEPT !.program_id = SliceFrom(first[1], 2),
                          !.asn_number = first[2],
                          !.obs_number = Slice(first[1], 7, 10),
                          !.visit_number = Slice(first[1], 10, 13)]

\* segment 0: program / observation / visit, or program / association number
ProductFirst(self, in_chunks) ==
    LET first == Split(in_chunks[1], "-")
    IN  IF Len(first) = 1
        THEN [self EXCEPT !.program_id = Slice(first[1], 2, 7),
                          !.obs_number = Slice(first[1], 7, 10),
                          !.visit_number = Slice(first[1], 10, 13),
                          !.asn_number = None]
        ELSE [self EXCEPT !.program_id = SliceFrom(first[1], 2),
                          !.asn_number = first[2],
                          !.obs_number = None,
                          !.visit_number = None]

\* A slip in the source branch: the segment is stored as target_id as well.
ProductSecondKeepsTarget(self, in_chunks) ==
    LET second == in_chunks[2]
    IN  IF StartsWith(second, <<"t">>)
        THEN [self EXCEPT !.target_id = second, !.source_id = None,
                          !.visit_group = None, !.parallel_seq = None,
                          !.activity_number = None]
        ELSE IF StartsWith(second, <<"s">>)
        THEN [self EXCEPT !.source_id = second, !.target_id = second,
                          !.visit_group = None, !.parallel_seq = None,
                          !.activity_number = None]
        ELSE IF Len(second) < 3
        THEN [self EXCEPT !.visit_group = Slice(second, 0, 2),
                          !.raised = "IndexError"]
        ELSE [self EXCEPT !.visit_group = Slice(second, 0, 2),
                          !.parallel_seq = <<second[3]>>,
                          !.activity_number = SliceFrom(second, 3),
                          !.target_id = None, !.source_id = None]

\* segment 1: target, source, or visit group / parallel sequence / activity.
\* second[2] raises IndexError when the segment has fewer than 3 characters.
ProductSecond(self, in_chunks) ==
    LET second == in_chunks[2]
    IN  IF StartsWith(second, t_)
        THEN [self EXCEPT !.target_id = second, !.source_id = None,
                          !.visit_group = None, !.parallel_seq = None,
                          !.activity_number = None]
        ELSE IF StartsWith(second, s_)
        THEN [self EXCEPT !.source_id = second, !.target_id = None,
                          !.visit_group = None, !.parallel_seq = None,
                          !.activity_number = None]
        ELSE IF Len(second) < 3
        THEN [self EXCEPT !.visit_group = Slice(second, 0, 2),
                          !.raised = "IndexError"]
        ELSE [self EXCEPT !.visit_group = Slice(second, 0, 2),
                          !.parallel_seq = <<second[3]>>,
                          !.activity_number = SliceFrom(second, 3),
                          !.target_id = None, !.source_id = None]

\* segment 2: exposure number or instrument
ProductThird(self, in_chunks) ==
    LET third == in_chunks[3]
    IN  IF IsDigit(third)
        THEN [self EXCEPT !.exposure_number = third, !.instrument = None]
        ELSE [self EXCEPT !.instrument = third, !.exposure_number = None]

\* if self.asn_number:  (None and "" are both false)
Truthy(x) == x # None /\ x # <<>>

\* segments 3..n-2: optical elements or detector
ProductFourth(self, in_chunks) ==
    LET fourth == SubSeq(in_chunks, 4, Len(in_chunks) - 1)
    IN  IF Truthy(self.asn_number)
        THEN LET as_string == StrOfList(fourth)
             IN [self EXCEPT
                   !.optical_elements = SubSeq(as_string, 2, Len(as_string) - 1),
                   !.detector = NA]
        ELSE IF fourth = <<>> THEN [self EXCEPT !.raised = "IndexError"]
        ELSE [self EXCEPT !.detector = fourth[1], !.optical_elements = None]

\* A slip in the inference: the detector token is compared as written, not
\* lower-cased.
ProductDetectorCaseSensitive(self) ==
    LET det == self.detector
    IN  IF StartsWith(det, <<"m","i","r">>)
        THEN [self EXCEPT !.instrument = <<"m","i","r","i">>]
        ELSE IF StartsWith(det, <<"n","r","c">>)
        THEN [self EXCEPT !.instrument = <<"n","i","r","c","a","m">>]
        ELSE IF StartsWith(det, <<"n","i","s">>)
        THEN [self EXCEPT !.instrument = <<"n","i","r","i","s","s">>]
        ELSE IF StartsWith(det, <<"n","r","s">>)
        THEN [self EXCEPT !.instrument = <<"n","i","r","s","p","e","c">>]
        ELSE [self EXCEPT !.detector = None]

\* A slip in the inference: the detector is cleared in one of the
\* recognised branches too.
ProductDetectorClearsKnown(self) ==
    LET det == Lower(self.detector)
    IN  IF StartsWith(det, <<"m","i","r">>)
        THEN [self EXCEPT !.instrument = <<"m","i","r","i">>]
        ELSE IF StartsWith(det, <<"n","r","c">>)
        THEN [self EXCEPT !.instrument = <<"n","i","r","c","a","m">>,
                          !.detector = None]
        ELSE IF StartsWith(det, <<"n","i","s">>)
        THEN [self EXCEPT !.instrument = <<"n","i","r","i","s","s">>]
        ELSE IF StartsWith(det, <<"n","r","s">>)
        THEN [self EXCEPT !.instrument = <<"n","i","r","s","p","e","c">>]
        ELSE [self EXCEPT !.detector = None]

\* detector-prefix inference
ProductDetector(self) ==
    LET det == Lower(self.detector)
    IN  IF StartsWith(det, <<"m","i","r">>)
        THEN [self EXCEPT !.instrument = <<"m","i","r","i">>]
        ELSE IF StartsWith(det, <<"n","r","c">>)
        THEN [self EXCEPT !.instrument = <<"n","i","r","c","a","m">>]
        ELSE IF StartsWith(det, <<"n","i","s">>)
        THEN [self EXCEPT !.instrument = <<"n","i","r","i","s","s">>]
        ELSE IF StartsWith(det, <<"n","r","s">>)
        THEN [self EXCEPT !.instrument = <<"n","i","r","s","p","e","c">>]
        ELSE [self EXCEPT !.detector = None]

ProductRest(self, in_chunks) ==
    [self EXCEPT !.suffix = Last(in_chunks),
                 !.description = None, !.units = None, !.level = None,
                 !.pipeline = Unknown, !.member_of = None]

\* JWSTProduct.__init__(fullpath): the object's attributes when __init__
\* ends; raised names the exception that ended it, "none" for a normal return.
JWSTProduct(fullpath) ==
    LET self == NewProduct(fullpath)
        in_chunks == Split(self.full, "_")
    IN  IF TooFewChunks(in_chunks) THEN self
        ELSE
        LET self1 == ProductFirst([self EXCEPT !.formatted = TRUE], in_chunks)
            self2 == ProductSecond(self1, in_chunks)
        IN  IF self2.raised # "none" THEN self2
            ELSE
            LET self3 == ProductThird(self2, in_chunks)
                self4 == ProductFourth(self3, in_chunks)
            IN  IF self4.raised # "none" THEN self4
                ELSE ProductRest(ProductDetector(self4), in_chunks)

-----------------------------------------------------------------------------
(* Instrument names and exposure types the resolvers compare against *)

ami ==
    <<"a","m","i">>
miri ==
    <<"m","i","r","i">>
nircam ==
    <<"n","i","r","c","a","m">>
niriss ==
    <<"n","i","r","i","s","s">>
IMAGE ==
    <<"I","M","A","G","E">>
LYOT ==
    <<"L","Y","O","T">>
MIR4QPM ==
    <<"M","I","R","4","Q","P","M">>
CORONCAL ==
    <<"C","O","R","O","N","C","A","L">>
CORON ==
    <<"C","O","R","O","N">>
TSIMAGE ==
    <<"T","S","I","M","A","G","E">>
TACONFIRM ==
    <<"T","A","C","O","N","F","I","R","M">>
TACQ ==
    <<"T","A","C","Q">>
IMAGING ==
    <<"I","M","A","G","I","N","G">>
CONFIRM ==
    <<"C","O","N","F","I","R","M">>
LRS_FIXEDSLIT ==
    <<"L","R","S","-","F","I","X","E","D","S","L","I","T">>
LRS_SLITLESS ==
    <<"L","R","S","-","S","L","I","T","L","E","S","S">>
MRS ==
    <<"M","R","S">>
GRISM ==
    <<"G","R","I","S","M">>
TSGRISM ==
    <<"T","S","G","R","I","S","M">>
WFSS ==
    <<"W","F","S","S">>
SOSS ==
    <<"S","O","S","S">>
FIXEDSLIT ==
    <<"F","I","X","E","D","S","L","I","T">>
MSASPEC ==
    <<"M","S","A","S","P","E","C">>
BRIGHTOBJ ==
    <<"B","R","I","G","H","T","O","B","J">>
LAMP ==
    <<"L","A","M","P">>
IFU ==
    <<"I","F","U">>

-----------------------------------------------------------------------------
(* The reference database: ref_db[t] is the set of suffixes stage table t   *)
(* has a row for; Row(t, suffix) is what fetchone() returns for it.         *)

Tables == {"detector1", "image2", "spec2", "image3", "spec3", "tso3",
           "ami3", "coron3"}

Row(table, suffix) ==
    [suffix |-> suffix,
     description |-> <<"description", table>> \o suffix,
     units |-> <<"units", table>> \o suffix,
     level |-> <<"level", table>>]

\* matches = {pipe: result for pipe, result in matches.items()
\*            if result is not None}: the queried tables that have a row,
\* in insertion (query) order.
Matches(queried, suffix, db) ==
    SelectSeq(queried, LAMBDA t : suffix \in db[t])

\* A slip in the tie-break: the first matching table is taken.
PipelineFirst(matches) == matches[1]

\* pipeline = list(matches.keys())[-1]
Pipeline(matches) == matches[Len(matches)]

\* product.description / units / level = suffix_info[1..3]
AttachSuffixInfo(product, suffix_info) ==
    [product EXCEPT !.description = suffix_info.description,
                    !.units = suffix_info.units,
                    !.level = suffix_info.level]

\* l.remove(x): drop the first item equal to x
RemoveFirst(l, x) ==
    LET k == CHOOSE i \in 1..Len(l) : l[i] = x /\ \A j \in 1..(i - 1) : l[j] # x
    IN SubSeq(l, 1, k - 1) \o SubSeq(l, k + 1, Len(l))

LogEntry(level, what, file) == [level |-> level, what |-> what, file |-> file]

-----------------------------------------------------------------------------
(* scan_jwst_directory_v2.py *)

\* The stage tables add_suffix_info_to_products queries for a product, in order.
QueriedV2(product) ==
    <<"detector1", "image2", "spec2", "image3", "spec3", "tso3">>
    \o (IF product.instrument = ami THEN <<"ami3">>
        ELSE IF product.instrument = miri \/ product.instrument = nircam
        THEN <<"coron3">>
        ELSE <<>>)

\* add_suffix_info_to_products: "for product in product_objects" keeps an
\* index into the list; i is the number of items the iterator has handed
\* out.  product_objects.remove(product) shortens the list under it.
RECURSIVE SuffixLoopV2(_, _, _)
SuffixLoopV2(st, i, db) ==
    IF i >= Len(st.objects) THEN st
    ELSE
    LET product == st.objects[i + 1]
        matches == Matches(QueriedV2(product), product.suffix, db)
        seen == st.examined \cup {product.fullpath}
    IN  IF Len(matches) = 0
        THEN SuffixLoopV2(
                [objects |-> RemoveFirst(st.objects, product),
                 log |-> Append(st.log,
                            LogEntry("error", "filetype", product.filename)),
                 examined |-> seen],
                i + 1, db)
        ELSE SuffixLoopV2(
                [objects |-> [st.objects EXCEPT ![i + 1] =
                                AttachSuffixInfo(product,
                                    Row(Pipeline(matches), product.suffix))],
                 log |-> st.log,
                 examined |-> seen],
                i + 1, db)

add_suffix_info_to_products(product_objects, db) ==
    SuffixLoopV2([objects |-> product_objects, log |-> <<>>, examined |-> {}],
                 0, db)

\* The assignment the source keeps commented out is made as well.
RECURSIVE MemberOfV2SetsPipeline(_, _)
MemberOfV2SetsPipeline(product, asns) ==
    IF asns = <<>> THEN product
    ELSE IF InList(product.filename, Head(asns).members)
    THEN [product EXCEPT !.member_of = Head(asns).filename,
                         !.pipeline = Head(asns).pipeline_element]
    ELSE MemberOfV2SetsPipeline(product, Tail(asns))

\* add_asn_info_to_products, the inner loop for one product: the scan over
\* asn_objects stops (break) at the first association that lists it.
RECURSIVE MemberOfV2(_, _)
MemberOfV2(product, asns) ==
    IF asns = <<>> THEN product
    ELSE IF InList(product.filename, Head(asns).members)
    THEN [product EXCEPT !.member_of = Head(asns).filename]
    ELSE MemberOfV2(product, Tail(asns))

add_asn_info_to_products(asns, product_objects) ==
    [i \in 1..Len(product_objects) |-> MemberOfV2(product_objects[i], asns)]

\* The content of the manifest at an association path.
FileAt(f, path) == (CHOOSE a \in f.asn : a.path = path).file

\* sorted(l) for a list of distinct strings
SortedList(l) == Sorted({l[i] : i \in 1..Len(l)})

\* create_association_objects: an exception in JWSTAssociation() leaves the
\* function (raised); a well-formatted association is appended.
RECURSIVE AsnLoopV2(_, _, _)
AsnLoopV2(paths, f, st) ==
    IF paths = <<>> THEN st
    ELSE
    LET asn == JWSTAssociation(Head(paths), FileAt(f, Head(paths)))
        logged == IF asn.formatted THEN st.log
                  ELSE Append(st.log, LogEntry("error", "format", Head(paths)))
    IN  IF asn.raised # "none"
        THEN [st EXCEPT !.raised = asn.raised, !.log = logged]
        ELSE AsnLoopV2(Tail(paths), f,
                [objects |-> IF asn.formatted THEN Append(st.objects, asn)
                             ELSE st.objects,
                 log |-> logged,
                 raised |-> "none"])

create_association_objects(asn_list, f) ==
    AsnLoopV2(SortedList(asn_list), f,
              [objects |-> <<>>, log |-> <<>>, raised |-> "none"])

RECURSIVE ProductLoopV2KeepsAll(_, _)
ProductLoopV2KeepsAll(paths, st) ==
    IF paths = <<>> THEN st
    ELSE
    LET product == JWSTProduct(Head(paths))
    IN  IF product.raised # "none"
        THEN [st EXCEPT !.raised = product.raised]
        ELSE ProductLoopV2KeepsAll(Tail(paths),
                [st EXCEPT !.objects = Append(@, product)])

\* create_product_objects
RECURSIVE ProductLoopV2(_, _)
ProductLoopV2(paths, st) ==
    IF paths = <<>> THEN st
    ELSE
    LET product == JWSTProduct(Head(paths))
        logged == IF product.formatted THEN st.log
                  ELSE Append(st.log, LogEntry("error", "format", Head(paths)))
    IN  IF product.raised # "none"
        THEN [st EXCEPT !.raised = product.raised, !.log = logged]
        ELSE ProductLoopV2(Tail(paths),
                [objects |-> IF product.formatted
                             THEN Append(st.objects, product)
                             ELSE st.objects,
                 log |-> logged,
                 raised |-> "none"])

create_product_objects(product_list) ==
    ProductLoopV2(SortedList(product_list),
                  [objects |-> <<>>, log |-> <<>>, raised |-> "none"])

-----------------------------------------------------------------------------
(* scan_jwst_directory_v3.py *)

Image2Types == {IMAGE, LYOT, MIR4QPM, CORONCAL, CORON, TSIMAGE, TACONFIRM,
                TACQ, IMAGING, CONFIRM}
Spec2Types == {LRS_FIXEDSLIT, LRS_SLITLESS, MRS, GRISM, TSGRISM, WFSS, SOSS,
               FIXEDSLIT, MSASPEC, BRIGHTOBJ, LAMP, IFU}
Image3Types == {IMAGE, TACONFIRM, TACQ, IMAGING, CONFIRM}
Spec3Types == Spec2Types
Coron3Types == {LYOT, MIR4QPM, CORONCAL, CORON}

\* The stage tables add_suffix_info_to_dict queries (searched), in order.
QueriedV3(exp_type, tso, instrument) ==
    <<"detector1">>
    \o (IF exp_type \in Image2Types THEN <<"image2">> ELSE <<>>)
    \o (IF exp_type \in Spec2Types THEN <<"spec2">> ELSE <<>>)
    \o (IF exp_type \in Image3Types THEN <<"image3">> ELSE <<>>)
    \o (IF exp_type \in Spec3Types THEN <<"spec3">> ELSE <<>>)
    \o (IF tso THEN <<"tso3">> ELSE <<>>)
    \o (IF instrument = niriss THEN <<"ami3">> ELSE <<>>)
    \o (IF exp_type \in Coron3Types THEN <<"coron3">> ELSE <<>>)

\* d without key k
Del(d, k) == [x \in (DOMAIN d) \ {k} |-> d[x]]

\* add_suffix_info_to_dict: the loop runs over sorted(product_dict.keys()),
\* a list made before the loop, so "del product_dict[k]" does not disturb it.
RECURSIVE SuffixLoopV3(_, _, _)
SuffixLoopV3(st, keys, db) ==
    IF keys = <<>> THEN st
    ELSE
    LET k == Head(keys)
        product == st.dict[k]
        filename == product.filename
        instrument == Lower(product.instrume)
        exp_type == Last(Split(product.exp_type, "_"))
        suffix == Last(Split(Split(filename, ".")[1], "_"))
        matches == Matches(QueriedV3(exp_type, product.tsovisit, instrument),
                           suffix, db)
        seen == st.examined \cup {k}
    IN  IF exp_type = <<>>
        THEN SuffixLoopV3(
                [st EXCEPT !.log = Append(@, LogEntry("error", "exp_type",
                                                      filename))],
                Tail(keys), db)
        ELSE IF Len(matches) = 0
        THEN SuffixLoopV3(
                [dict |-> Del(st.dict, k),
                 log |-> Append(st.log, LogEntry("error", "filetype", filename)),
                 examined |-> seen],
                Tail(keys), db)
        ELSE SuffixLoopV3(
                [dict |-> [st.dict EXCEPT ![k] =
                            AttachSuffixInfo(product,
                                             Row(Pipeline(matches), suffix))],
                 log |-> st.log,
                 examined |-> seen],
                Tail(keys), db)

add_suffix_info_to_dict(product_dict, db) ==
    SuffixLoopV3([dict |-> product_dict, log |-> <<>>, examined |-> {}],
                 Sorted(DOMAIN product_dict), db)

\* add_asn_info_to_dict, the inner loop for one product: every association
\* is visited (no break); product["filename"] in asn["members"] is a
\* substring test, because asn["members"] is the str() of the member list.
RECURSIVE UsedByV3(_, _, _)
UsedByV3(product, asn_dict, keys) ==
    IF keys = <<>> THEN product
    ELSE
    LET asn == asn_dict[Head(keys)]
    IN  IF asn.members = None
        THEN UsedByV3(product, asn_dict, Tail(keys))
        ELSE IF Contains(asn.members, product.filename)
        THEN UsedByV3([product EXCEPT !.used_by = asn.filename],
                      asn_dict, Tail(keys))
        ELSE UsedByV3(product, asn_dict, Tail(keys))

add_asn_info_to_dict(product_dict, asn_dict) ==
    [p \in DOMAIN product_dict |->
        UsedByV3([product_dict[p] EXCEPT !.used_by = <<>>],
                 asn_dict, Sorted(DOMAIN asn_dict))]

\* for p in f["products"]: products.append(p["name"])
ProductNames(products) == [i \in 1..Len(products) |-> products[i].name]

\* for p in f["products"]: for m in p['members']: members.append(m["expname"])
AllMembers(products) ==
    Concat([i \in 1..Len(products) |-> products[i].members])

\* create_asn_dict, one file that json.load() accepted
AsnEntryV3(filepath, file) ==
    LET listed == IF file.has_products THEN file.products ELSE <<>>
        products == ProductNames(listed)
        members == AllMembers(listed)
    IN  [filename |-> Last(Split(filepath, "/")),
         program |-> file.program,
         products |-> IF Len(products) = 0 THEN None ELSE StrOfList(products),
         members |-> IF Len(members) = 0 THEN None ELSE StrOfList(members)]

\* create_asn_dict: a file that is not JSON is logged and skipped (continue);
\* open() failing is not caught.
RECURSIVE AsnLoopV3(_, _, _)
AsnLoopV3(paths, f, st) ==
    IF paths = <<>> THEN st
    ELSE
    LET filepath == Head(paths)
        file == FileAt(f, filepath)
    IN  IF ~file.readable THEN [st EXCEPT !.raised = "OSError"]
        ELSE IF ~file.json
        THEN AsnLoopV3(Tail(paths), f,
                [st EXCEPT !.log = Append(@, LogEntry("error", "json", filepath))])
        ELSE AsnLoopV3(Tail(paths), f,
                [st EXCEPT !.dict = (filepath :> AsnEntryV3(filepath, file)) @@ @])

create_asn_dict(asnlist, f) ==
    AsnLoopV3(asnlist, f, [dict |-> <<>>, log |-> <<>>, raised |-> "none"])

\* The primary header of the product file at a path.
HeaderAt(f, path) == (CHOOSE x \in f.fits : x.path = path).hdr

\* create_fits_dict: the header keywords the later steps read
create_fits_dict(fitslist, f) ==
    [p \in {fitslist[i] : i \in 1..Len(fitslist)} |->
        [filename |-> HeaderAt(f, p).filename,
         program |-> HeaderAt(f, p).program,
         instrume |-> HeaderAt(f, p).instrume,
         exp_type |-> HeaderAt(f, p).exp_type,
         tsovisit |-> HeaderAt(f, p).tsovisit,
         used_by |-> Unset,
         description |-> Unset, units |-> Unset, level |-> Unset]]

\* find_files on an existing directory: both lists sorted by path
find_files(f) ==
    [fits |-> Sorted({x.path : x \in f.fits}),
     asn |-> Sorted({x.path : x \in f.asn})]

-----------------------------------------------------------------------------
(* The in-memory database and the per-program tables *)

\* A table of the in-memory database.  columns: the table has the data
\* columns (a DataFrame built from no objects has none, and to_sql then
\* creates a table with the index column only).  A row keeps the file and
\* the program column, the two the partition by program reads.
Table(rows) == [columns |-> Len(rows) > 0, rows |-> rows]

NoTables == [associations |-> Table(<<>>), products |-> Table(<<>>)]

\* v2 writes its tables with dtype='string'.  A column declared "string"
\* has NUMERIC affinity in SQLite, so a text made of digits is stored as an
\* integer; this is str() of the value a SELECT hands back.
StoredAsString(s) == IF IsDigit(s) THEN NatStr(ToInt(s)) ELSE s

\* v2: add_objects_to_dataframe + write_dataframe_to_sql
TableV2(objects) ==
    Table([i \in 1..Len(objects) |->
             [file |-> objects[i].filename,
              program |-> StoredAsString(objects[i].program_id)]])

\* v3: turn_dict_into_frame + write_dataframe_to_sql (no dtype: a column of
\* strings is TEXT and is stored as written)
TableV3(dict) ==
    LET keys == Sorted(DOMAIN dict)
    IN  Table([i \in 1..Len(keys) |->
                 [file |-> dict[keys[i]].filename,
                  program |-> dict[keys[i]].program]])

\* v2: programs = list(set(str(row[0]) for row in SELECT program_id ...))
get_exposure_programs_list(db) ==
    {db.products.rows[i].program : i \in 1..Len(db.products.rows)}

\* v3: programs = list(filter(None, list(set(df["program"]))))
ProgramsV3(db) ==
    {p \in {db.products.rows[i].program : i \in 1..Len(db.products.rows)} :
        p # <<>>}

\* SELECT * FROM <table> WHERE program_id=? (v2) / program=? (v3)
FilesOfProgram(table, p) ==
    LET hits == SelectSeq(table.rows, LAMBDA row : row.program = p)
    IN  [i \in 1..Len(hits) |-> hits[i].file]

\* create_program_tables: results[p] for every p of programs
create_program_tables(programs, db) ==
    [p \in programs |->
        [associations |-> FilesOfProgram(db.associations, p),
         products |-> FilesOfProgram(db.products, p)]]

\* The warnings of create_program_tables: a program without associations
ProgramWarnings(programs, db) ==
    LET ps == Sorted({p \in programs :
                        Len(FilesOfProgram(db.associations, p)) = 0})
    IN  [i \in 1..Len(ps) |-> LogEntry("warning", "associations", ps[i])]

-----------------------------------------------------------------------------
(* Inputs: filename segments, file names, manifests, headers, databases *)

S0_obs ==
    <<"j","w","0","0","0","0","1","0","0","1","0","0","1">>
S0_asn ==
    <<"j","w","1","2","3","4","5","-","o","0","0","1">>
S0_three ==
    <<"j","w","1","2","3","4","5","-","o","0","0","1","-","x">>
S0_emptyasn ==
    <<"j","w","1","2","3","4","5","-">>
S0_short ==
    <<"j","w","1","2","3">>
S1_visit ==
    <<"0","1","1","0","1">>
S1_target ==
    <<"t","0","0","1">>
S1_source ==
    <<"s","0","0","0","0","1">>
S1_short ==
    <<"0","1">>
S1_date ==
    <<"2","0","2","3","1","1","0","5","T","1","2","0","0","0","0">>
S1_date7 ==
    <<"2","0","2","3","1","1","5","t","1","2","0","0","0","0">>
S1_feb30 ==
    <<"2","0","2","3","0","2","3","0","T","0","0","0","0","0","0">>
S1_leap ==
    <<"2","0","2","4","0","2","2","9","T","2","3","5","9","5","9">>
S2_exposure ==
    <<"0","0","0","0","1">>
S2_nircam ==
    <<"n","i","r","c","a","m">>
S2_image3 ==
    <<"i","m","a","g","e","3">>
S3_nrca1 ==
    <<"n","r","c","a","1">>
S3_mirimage ==
    <<"m","i","r","i","m","a","g","e">>
S3_NRS1 ==
    <<"N","R","S","1">>
S3_nis ==
    <<"n","i","s">>
S3_f170lp ==
    <<"f","1","7","0","l","p">>
S3_001 ==
    <<"0","0","1">>
SX_g235m ==
    <<"g","2","3","5","m">>
SX_asn ==
    <<"a","s","n">>
SUF_cal ==
    <<"c","a","l">>
SUF_bogus ==
    <<"b","o","g","u","s">>
SUF_asn ==
    <<"a","s","n">>
SUF_i2d ==
    <<"i","2","d">>
EXT_fits ==
    <<".","f","i","t","s">>
EXT_json ==
    <<".","j","s","o","n">>
DIR_d ==
    <<"d","/">>
S2_ami ==
    <<"a","m","i">>
S3_xyz ==
    <<"x","y","z">>
S1_1s ==
    <<"0","0","0","0","1">>
A_prog1o1 ==
    <<"j","w","0","0","0","0","1","-","o","0","0","1">>
A_prog1o2 ==
    <<"j","w","0","0","0","0","1","-","o","0","0","2">>
A_prog3 ==
    <<"j","w","0","0","0","0","3","-","o","0","0","1">>
S0_obs2 ==
    <<"j","w","0","0","0","0","2","0","0","1","0","0","1">>
S0_prog ==
    <<"j","w","0","0","0","0","1">>
A_pool ==
    <<"p","o","o","l">>
H_prog1 ==
    <<"0","0","0","0","1">>
H_prog2 ==
    <<"0","0","0","0","2">>
H_NIRCAM ==
    <<"N","I","R","C","A","M">>
H_MIRI ==
    <<"M","I","R","I">>
H_NIRISS ==
    <<"N","I","R","I","S","S">>
H_NIRSPEC ==
    <<"N","I","R","S","P","E","C">>
H_NRC_IMAGE ==
    <<"N","R","C","_","I","M","A","G","E">>
H_MIR_LYOT ==
    <<"M","I","R","_","L","Y","O","T">>
H_NIS_AMI ==
    <<"N","I","S","_","A","M","I">>
H_NRS_MSASPEC ==
    <<"N","R","S","_","M","S","A","S","P","E","C">>
P_name ==
    <<"p","1">>
S3_00002 ==
    <<"0","0","0","0","2">>

\* sep.join(segs)
RECURSIVE Join(_, _)
Join(segs, sep) ==
    IF segs = <<>> THEN <<>>
    ELSE IF Len(segs) = 1 THEN segs[1]
    ELSE segs[1] \o <<sep>> \o Join(Tail(segs), sep)

FitsName(segs) == Join(segs, "_") \o EXT_fits
JsonName(segs) == Join(segs, "_") \o EXT_json
InDir(name) == DIR_d \o name

\* Bounds of the model
MaxProducts == 3
MaxAssociations == 2
MaxSegments == 6

\* Product file names
N_cal == FitsName(<<S0_obs, S1_visit, S2_exposure, S3_nrca1, SUF_cal>>)
N_bogus1 == FitsName(<<S0_obs, S1_visit, S2_exposure, S3_nrca1, SUF_bogus>>)
N_bogus2 == FitsName(<<S0_obs, S1_visit, S3_00002, S3_nrca1, SUF_bogus>>)
N_miri == FitsName(<<S0_obs2, S1_visit, S2_exposure, S3_mirimage, SUF_cal>>)
N_ami == FitsName(<<S0_obs2, S1_visit, S2_ami, S3_xyz, SUF_cal>>)
N_short == FitsName(<<S0_prog, SUF_cal>>)
N_raise == FitsName(<<S0_obs, S1_short, S2_exposure, S3_nrca1, SUF_cal>>)

Header(filename, program, instrume, exp_type, tsovisit) ==
    [filename |-> filename, program |-> program, instrume |-> instrume,
     exp_type |-> exp_type, tsovisit |-> tsovisit]

FitsFile(name, hdr) == [path |-> InDir(name), hdr |-> hdr]

\* The product files a directory may hold.  A keyword the header lacks
\* reads as "" (create_fits_dict).
ProductPool ==
    {FitsFile(N_cal, Header(N_cal, H_prog1, H_NIRCAM, H_NRC_IMAGE, FALSE)),
     FitsFile(N_bogus1, Header(N_bogus1, H_prog1, H_NIRCAM, H_NRC_IMAGE, FALSE)),
     FitsFile(N_bogus2, Header(N_bogus2, H_prog1, H_NIRCAM, <<>>, FALSE)),
     FitsFile(N_miri, Header(N_miri, H_prog2, H_MIRI, H_MIR_LYOT, FALSE)),
     FitsFile(N_ami, Header(N_ami, H_prog2, H_NIRISS, H_NIS_AMI, TRUE)),
     FitsFile(N_short, Header(N_short, <<>>, H_NIRCAM, H_NRC_IMAGE, FALSE)),
     FitsFile(N_raise, Header(N_raise, H_prog1, H_NIRSPEC, H_NRS_MSASPEC, FALSE))}

\* Association file names
A_1 == JsonName(<<A_prog1o1, S1_date, S2_image3, S3_001, SUF_asn>>)
A_2 == JsonName(<<A_prog1o2, S1_date, S2_image3, S3_001, SUF_asn>>)
A_bad == JsonName(<<A_pool, SUF_asn>>)

\* Manifests
M_one == Manifest(TRUE, TRUE, H_prog1, TRUE,
                  <<Product(P_name, <<N_cal, N_bogus1>>)>>)
M_two == Manifest(TRUE, TRUE, H_prog1, TRUE,
                  <<Product(P_name, <<N_miri>>), Product(P_name, <<N_cal>>)>>)
M_longer == Manifest(TRUE, TRUE, H_prog1, TRUE,
                     <<Product(P_name, <<<<"x">> \o N_cal>>)>>)
M_notjson == Manifest(TRUE, FALSE, <<>>, FALSE, <<>>)
M_unreadable == Manifest(FALSE, FALSE, <<>>, FALSE, <<>>)
M_empty == Manifest(TRUE, TRUE, H_prog1, TRUE, <<>>)
M_nokey == Manifest(TRUE, TRUE, H_prog1, FALSE, <<>>)

AsnFile(name, file) == [path |-> InDir(name), file |-> file]

AsnPool ==
    {AsnFile(A_1, m) : m \in {M_one, M_two, M_longer}}
    \cup {AsnFile(A_2, m) : m \in {M_one, M_notjson, M_unreadable, M_nokey}}
    \cup {AsnFile(A_bad, M_one)}

\* Reference databases
Db(rows) == [t \in Tables |-> {r[2] : r \in {x \in rows : x[1] = t}}]

RefDbs ==
    {Db({<<"image2", SUF_cal>>, <<"spec2", SUF_cal>>, <<"ami3", SUF_cal>>,
         <<"coron3", SUF_cal>>}),
     Db({<<"detector1", SUF_cal>>, <<"tso3", SUF_cal>>}),
     Db({<<"coron3", SUF_cal>>})}

DistinctPaths(S) == \A x, y \in S : x.path = y.path => x = y

Directories ==
    {[exists |-> TRUE, fits |-> F, asn |-> A] :
        F \in {X \in SUBSET ProductPool : Cardinality(X) <= MaxProducts},
        A \in {X \in SUBSET AsnPool :
                 Cardinality(X) <= MaxAssociations /\ DistinctPaths(X)}}
    \cup {[exists |-> FALSE, fits |-> {}, asn |-> {}]}

NoDec == [kind |-> "unused"]

-----------------------------------------------------------------------------
(* run(directory, output) of scan_jwst_directory_v2.py and _v3.py *)

Init ==
    /\ pc = "start"
    /\ variant \in {"v2", "v3"}
    /\ fs \in Directories
    /\ ref_db \in RefDbs
    /\ files = None
    /\ asn_objects = <<>>
    /\ fits_objects = <<>>
    /\ examined = {}
    /\ log = <<>>
    /\ mem_db = NoTables
    /\ results = <<>>
    /\ dec = NoDec

isdirAlways(f) == TRUE

\* os.path.isdir(directory)
isdir(f) == f.exists

\* files = find_files(directory); fits = files['fits']: find_files returns
\* None for a missing directory and the subscript raises TypeError.
FindFiles ==
    /\ pc = "start"
    /\ IF isdir(fs)
       THEN /\ pc' = "found"
            /\ files' = find_files(fs)
            /\ log' = log
       ELSE /\ pc' = "aborted"
            /\ files' = None
            /\ log' = Append(log, LogEntry("critical", "directory", <<>>))
    /\ UNCHANGED <<mem_db, results, variant, fs, ref_db, asn_objects, fits_objects, examined, dec>>

\* v2: asn_objects = create_association_objects(asn)
CreateAssociationObjects ==
    /\ pc = "found" /\ variant = "v2"
    /\ LET r == create_association_objects(files.asn, fs)
       IN /\ asn_objects' = r.objects
          /\ log' = log \o r.log
          /\ pc' = IF r.raised = "none" THEN "asn" ELSE "aborted"
    /\ UNCHANGED <<mem_db, results, variant, fs, ref_db, files, fits_objects, examined, dec>>

\* v2: fits_objects = create_product_objects(fits)
CreateProductObjects ==
    /\ pc = "asn" /\ variant = "v2"
    /\ LET r == create_product_objects(files.fits)
       IN /\ fits_objects' = r.objects
          /\ log' = log \o r.log
          /\ pc' = IF r.raised = "none" THEN "products" ELSE "aborted"
    /\ UNCHANGED <<mem_db, results, variant, fs, ref_db, files, asn_objects, examined, dec>>

\* v2: fits_objects = add_asn_info_to_products(asn_objects, fits_objects)
AddAsnInfoToProducts ==
    /\ pc = "products" /\ variant = "v2"
    /\ fits_objects' = add_asn_info_to_products(asn_objects, fits_objects)
    /\ pc' = "attached"
    /\ UNCHANGED <<mem_db, results, variant, fs, ref_db, files, asn_objects, examined, log, dec>>

\* v2: fits_objects = add_suffix_info_to_products(fits_objects, ref_db)
AddSuffixInfoToProducts ==
    /\ pc = "attached" /\ variant = "v2"
    /\ LET r == add_suffix_info_to_products(fits_objects, ref_db)
       IN /\ fits_objects' = r.objects
          /\ log' = log \o r.log
          /\ examined' = r.examined
    /\ pc' = "resolved"
    /\ UNCHANGED <<mem_db, results, variant, fs, ref_db, files, asn_objects, dec>>

\* v3: a = create_asn_dict(asn)
CreateAsnDict ==
    /\ pc = "found" /\ variant = "v3"
    /\ LET r == create_asn_dict(files.asn, fs)
       IN /\ asn_objects' = r.dict
          /\ log' = log \o r.log
          /\ pc' = IF r.raised = "none" THEN "asn" ELSE "aborted"
    /\ UNCHANGED <<mem_db, results, variant, fs, ref_db, files, fits_objects, examined, dec>>

\* v3: d = create_fits_dict(fits)
CreateFitsDict ==
    /\ pc = "asn" /\ variant = "v3"
    /\ fits_objects' = create_fits_dict(files.fits, fs)
    /\ pc' = "products"
    /\ UNCHANGED <<mem_db, results, variant, fs, ref_db, files, asn_objects, examined, log, dec>>

\* v3: d = add_asn_info_to_dict(d, a)
AddAsnInfoToDict ==
    /\ pc = "products" /\ variant = "v3"
    /\ fits_objects' = add_asn_info_to_dict(fits_objects, asn_objects)
    /\ pc' = "attached"
    /\ UNCHANGED <<mem_db, results, variant, fs, ref_db, files, asn_objects, examined, log, dec>>

\* v3: d = add_suffix_info_to_dict(d, ref_db)
AddSuffixInfoToDict ==
    /\ pc = "attached" /\ variant = "v3"
    /\ LET r == add_suffix_info_to_dict(fits_objects, ref_db)
       IN /\ fits_objects' = r.dict
          /\ log' = log \o r.log
          /\ examined' = r.examined
    /\ pc' = "resolved"
    /\ UNCHANGED <<mem_db, results, variant, fs, ref_db, files, asn_objects, dec>>

\* v2: asn_frame / fits_frame = add_objects_to_dataframe(...), then
\* write_dataframe_to_sql(..., "associations" / "products", mem_db)
WriteTablesV2 ==
    /\ pc = "resolved" /\ variant = "v2"
    /\ mem_db' = [associations |-> TableV2(asn_objects),
                  products |-> TableV2(fits_objects)]
    /\ pc' = "stored"
    /\ UNCHANGED <<results, variant, fs, ref_db, files, asn_objects,
                   fits_objects, examined, log, dec>>

\* v2: programs = get_exposure_programs_list(mem_db);
\* results = create_program_tables(programs, mem_db).  A SELECT that names
\* program_id on a table without that column raises OperationalError.
CreateProgramTablesV2 ==
    /\ pc = "stored" /\ variant = "v2"
    /\ IF ~mem_db.products.columns \/ ~mem_db.associations.columns
       THEN /\ pc' = "aborted"
            /\ UNCHANGED <<results, log>>
       ELSE LET programs == get_exposure_programs_list(mem_db)
            IN  /\ results' = create_program_tables(programs, mem_db)
                /\ log' = log \o ProgramWarnings(programs, mem_db)
                /\ pc' = "done"
    /\ UNCHANGED <<mem_db, variant, fs, ref_db, files, asn_objects,
                   fits_objects, examined, dec>>

\* v3: af = turn_dict_into_frame(a); df = turn_dict_into_frame(d), then
\* write_dataframe_to_sql(af / df, "associations" / "products", mem_db)
WriteTablesV3 ==
    /\ pc = "resolved" /\ variant = "v3"
    /\ mem_db' = [associations |-> TableV3(asn_objects),
                  products |-> TableV3(fits_objects)]
    /\ pc' = "stored"
    /\ UNCHANGED <<results, variant, fs, ref_db, files, asn_objects,
                   fits_objects, examined, log, dec>>

\* v3: programs = list(filter(None, list(set(df["program"]))));
\* r = create_program_tables(programs, mem_db).  df["program"] raises
\* KeyError on a frame without columns; a SELECT that names program on a
\* table without that column raises OperationalError.
CreateProgramTablesV3 ==
    /\ pc = "stored" /\ variant = "v3"
    /\ IF \/ ~mem_db.products.columns
          \/ (ProgramsV3(mem_db) # {} /\ ~mem_db.associations.columns)
       THEN /\ pc' = "aborted"
            /\ UNCHANGED <<results, log>>
       ELSE LET programs == ProgramsV3(mem_db)
            IN  /\ results' = create_program_tables(programs, mem_db)
                /\ log' = log \o ProgramWarnings(programs, mem_db)
                /\ pc' = "done"
    /\ UNCHANGED <<mem_db, variant, fs, ref_db, files, asn_objects,
                   fits_objects, examined, dec>>

Next ==
    \/ FindFiles
    \/ CreateAssociationObjects
    \/ CreateProductObjects
    \/ AddAsnInfoToProducts
    \/ AddSuffixInfoToProducts
    \/ CreateAsnDict
    \/ CreateFitsDict
    \/ AddAsnInfoToDict
    \/ AddSuffixInfoToDict
    \/ WriteTablesV2
    \/ CreateProgramTablesV2
    \/ WriteTablesV3
    \/ CreateProgramTablesV3

Spec == Init /\ [][Next]_vars

-----------------------------------------------------------------------------
(* The decoders on their own: one path, decoded as an association (with    *)
(* the manifest behind it) or as a product.                                *)

S0Pool == {S0_obs, S0_asn, S0_three, S0_emptyasn, S0_short}
S1Pool == {S1_visit, S1_target, S1_source, S1_short,
           S1_date, S1_date7, S1_feb30, S1_leap}
S2Pool == {S2_exposure, S2_nircam, S2_image3}
S3Pool == {S3_nrca1, S3_mirimage, S3_NRS1, S3_nis, S3_f170lp, S3_001}
ExtraPool == {SX_g235m}
SuffixPool == {SUF_cal, SUF_asn}

\* The segments a name of n segments may have at position k
SegmentPool(k, n) ==
    IF k = n /\ n > 1 THEN SuffixPool
    ELSE IF k = 1 THEN S0Pool
    ELSE IF k = 2 THEN S1Pool
    ELSE IF k = 3 THEN S2Pool
    ELSE IF k = 4 THEN S3Pool
    ELSE ExtraPool

RECURSIVE SegmentLists(_, _)
SegmentLists(k, n) ==
    IF k > n THEN {<<>>}
    ELSE {<<x>> \o r : x \in SegmentPool(k, n), r \in SegmentLists(k + 1, n)}

DecodePaths ==
    UNION {{InDir(IF Last(l) = SUF_asn THEN JsonName(l) ELSE FitsName(l)) :
              l \in SegmentLists(1, n)} : n \in 1..MaxSegments}

DecodeManifests == {M_one, M_two, M_unreadable, M_empty}

DecodeInit ==
    /\ pc = "decode"
    /\ variant = "none"
    /\ fs = [exists |-> FALSE, fits |-> {}, asn |-> {}]
    /\ ref_db = Db({})
    /\ files = None
    /\ asn_objects = <<>>
    /\ fits_objects = <<>>
    /\ examined = {}
    /\ log = <<>>
    /\ mem_db = NoTables
    /\ results = <<>>
    /\ dec \in {[kind |-> "input", path |-> p] : p \in DecodePaths}

\* asn = JWSTAssociation(path)
DecodeAssociation ==
    /\ pc = "decode"
    /\ \E m \in DecodeManifests :
          dec' = [kind |-> "association", path |-> dec.path, file |-> m,
                  obj |-> JWSTAssociation(dec.path, m)]
    /\ pc' = "decoded"
    /\ UNCHANGED <<mem_db, results, variant, fs, ref_db, files, asn_objects, fits_objects,
                   examined, log>>

\* product = JWSTProduct(path)
DecodeProduct ==
    /\ pc = "decode"
    /\ dec' = [kind |-> "product", path |-> dec.path,
               obj |-> JWSTProduct(dec.path)]
    /\ pc' = "decoded"
    /\ UNCHANGED <<mem_db, results, variant, fs, ref_db, files, asn_objects, fits_objects,
                   examined, log>>

DecodeNext == DecodeAssociation \/ DecodeProduct

DecodeSpec == DecodeInit /\ [][DecodeNext]_vars

-----------------------------------------------------------------------------
(* Properties of the decoders (checked under DecodeSpec) *)

Range(l) == {l[i] : i \in 1..Len(l)}

\* The underscore-delimited segments of the decoded path's file name, its
\* extension stripped.
DecSegments == Split(Split(Last(Split(dec.path, "/")), ".")[1], "_")

\* Number of segments, counted from the separators.
DecSegmentCount ==
    LET full == Split(Last(Split(dec.path, "/")), ".")[1]
    IN 1 + Cardinality({i \in 1..Len(full) : full[i] = "_"})

Decoded == dec.kind \in {"association", "product"}

AssociationFields ==
    {"program_id", "ac_id", "datetime", "pipeline_element", "number"}

ProductFields ==
    {"program_id", "obs_number", "visit_number", "asn_number", "target_id",
     "source_id", "visit_group", "parallel_seq", "activity_number",
     "exposure_number", "instrument", "detector", "optical_elements", "suffix",
     "description", "units", "level", "pipeline", "member_of"}

\* C5: decode_product (JWSTProduct.__init__) is total: it never raises,
\* whatever the filename.
C5_DecodeProductNeverRaises ==
    dec.kind = "product" => dec.obj.raised = "none"

\* C6: a filename with fewer than 5 underscore-delimited segments decodes
\* (as an association or as a product) to a record with formatted = false
\* and no decoded field populated, and decoding does not raise.
C6_FewSegmentsUnformatted ==
    (Decoded /\ DecSegmentCount < 5) =>
        /\ dec.obj.formatted = FALSE
        /\ dec.obj.raised = "none"
        /\ \A f \in (IF dec.kind = "association" THEN AssociationFields
                     ELSE ProductFields) :
              dec.obj[f] = Unset
        /\ dec.kind = "association" => dec.obj.members = UnsetList

C6_Witness ==
    /\ dec.kind = "product"
    /\ DecSegmentCount = 4
    /\ dec.obj.formatted = FALSE
    /\ dec.obj.suffix = Unset

AllDigits(s) == \A i \in 1..Len(s) : s[i] \in DigitSet

\* jw<5digits>-<candidate>: candidate a non-empty token without '-'
ProgramCandidateForm(seg) ==
    /\ Len(seg) >= 9
    /\ SubSeq(seg, 1, 2) = <<"j", "w">>
    /\ AllDigits(SubSeq(seg, 3, 7))
    /\ seg[8] = "-"
    /\ \A i \in 9..Len(seg) : seg[i] # "-"

\* an 8-digit YYYYMMDD that is a date of the calendar
CalendarDate(s) ==
    /\ Len(s) = 8
    /\ AllDigits(s)
    /\ ToInt(SubSeq(s, 1, 4)) >= 1
    /\ ToInt(SubSeq(s, 5, 6)) \in 1..12
    /\ ToInt(SubSeq(s, 7, 8)) >= 1
    /\ ToInt(SubSeq(s, 7, 8)) <= DaysIn(ToInt(SubSeq(s, 1, 4)),
                                        ToInt(SubSeq(s, 5, 6)))

\* <YYYYMMDD>T<HHMMSS>
DateTimeForm(seg) ==
    /\ Len(seg) = 15
    /\ CalendarDate(SubSeq(seg, 1, 8))
    /\ seg[9] = "T"
    /\ AllDigits(SubSeq(seg, 10, 15))

\* jw<5digits>-<candidate>_<YYYYMMDD>T<HHMMSS>_<pipeline>_<num>_asn
AssociationForm(segs) ==
    /\ Len(segs) = 5
    /\ ProgramCandidateForm(segs[1])
    /\ DateTimeForm(segs[2])
    /\ segs[5] = SUF_asn

\* C7: for an association filename of the form
\* jw<5digits>-<candidate>_<YYYYMMDD>T<HHMMSS>_<pipeline>_<num>_asn the
\* decoder sets formatted = true, program_id, candidate id, pipeline tag and
\* sequence number to the literal substrings, and the date to the calendar
\* date YYYYMMDD (time of day discarded).
C7_AssociationFieldsAreLiteral ==
    (dec.kind = "association" /\ AssociationForm(DecSegments)) =>
        LET segs == DecSegments
        IN  /\ dec.obj.formatted = TRUE
            /\ dec.obj.program_id = SubSeq(segs[1], 3, 7)
            /\ dec.obj.ac_id = SubSeq(segs[1], 9, Len(segs[1]))
            /\ dec.obj.pipeline_element = segs[3]
            /\ dec.obj.number = segs[4]
            /\ dec.obj.datetime =
                  Strftime([year |-> ToInt(SubSeq(segs[2], 1, 4)),
                            month |-> ToInt(SubSeq(segs[2], 5, 6)),
                            day |-> ToInt(SubSeq(segs[2], 7, 8))])

C7_Witness ==
    /\ dec.kind = "association"
    /\ AssociationForm(DecSegments)
    /\ DecSegments[2] = S1_leap
    /\ dec.obj.raised = "none"
    /\ dec.obj.program_id = <<"1","2","3","4","5">>
    /\ dec.obj.datetime = <<"2","0","2","4"," ","F","e","b"," ","2","9">>

\* C8: segment 0 after its 2-character prefix must split on '-' into exactly
\* 2 parts: with fewer parts the record is formatted = false, and for every
\* formatted record program_id + '-' + candidate_id is segment 0 without
\* its prefix (no part is discarded).
C8_ExactlyTwoParts ==
    dec.kind = "association" =>
        LET rest == SliceFrom(DecSegments[1], 2)
        IN  /\ (\A i \in 1..Len(rest) : rest[i] # "-") => ~dec.obj.formatted
            /\ (dec.obj.formatted /\ dec.obj.raised = "none") =>
                  dec.obj.program_id \o <<"-">> \o dec.obj.ac_id = rest

\* The portion of a segment before its first 't' or 'T'
BeforeT(seg) ==
    IF \A i \in 1..Len(seg) : seg[i] \notin {"t", "T"} THEN seg
    ELSE SubSeq(seg, 1,
                (CHOOSE i \in 1..Len(seg) :
                    /\ seg[i] \in {"t", "T"}
                    /\ \A j \in 1..(i - 1) : seg[j] \notin {"t", "T"}) - 1)

\* C9: with at least 5 segments and a program-candidate token, a segment 1
\* whose portion before the first 't'/'T' is not a valid YYYYMMDD calendar
\* date makes decoding raise a parse exception; no date is recorded.
C9_GarbageDateRaises ==
    (/\ dec.kind = "association"
     /\ DecSegmentCount >= 5
     /\ ProgramCandidateForm(DecSegments[1])
     /\ ~CalendarDate(BeforeT(DecSegments[2]))) =>
        /\ dec.obj.raised = "ValueError"
        /\ dec.obj.datetime = Unset

\* C10: the members of an association are the expname values of all
\* members of all entries of the manifest's products list.
C10_AllMembersFlattened ==
    (dec.kind = "association" /\ dec.obj.formatted /\ dec.obj.raised = "none") =>
        dec.obj.members = AllMembers(dec.file.products)

-----------------------------------------------------------------------------
(* Properties of the runs (checked under Spec) *)

TraversalOrder ==
    <<"detector1", "image2", "spec2", "image3", "spec3", "tso3", "ami3", "coron3">>

OrderIndex(t) == CHOOSE i \in 1..Len(TraversalOrder) : TraversalOrder[i] = t

\* The last table of a non-empty set of tables, in traversal order
LastInOrder(T) == CHOOSE t \in T : \A u \in T : OrderIndex(u) <= OrderIndex(t)

\* The suffix of a file name: its last segment, extension stripped
SuffixOf(filename) == Last(Split(Split(filename, ".")[1], "_"))

\* The products of the current product set, each with its path, name,
\* suffix, the stage tables the resolver queries for it, the suffix
\* metadata it carries and the association it is attached to.
OutV2 ==
    {[path |-> p.fullpath, filename |-> p.filename, suffix |-> p.suffix,
      instrument |-> p.instrument,
      exp_type |-> None,
      queries |-> QueriedV2(p),
      queried |-> Range(QueriedV2(p)),
      info |-> <<p.description, p.units, p.level>>,
      member_of |-> p.member_of] : p \in Range(fits_objects)}

OutV3 ==
    {[path |-> k, filename |-> fits_objects[k].filename,
      suffix |-> SuffixOf(fits_objects[k].filename),
      instrument |-> Lower(fits_objects[k].instrume),
      exp_type |-> Last(Split(fits_objects[k].exp_type, "_")),
      queries |-> IF Last(Split(fits_objects[k].exp_type, "_")) = <<>> THEN <<>>
                  ELSE QueriedV3(Last(Split(fits_objects[k].exp_type, "_")),
                                 fits_objects[k].tsovisit,
                                 Lower(fits_objects[k].instrume)),
      queried |-> IF Last(Split(fits_objects[k].exp_type, "_")) = <<>> THEN {}
                  ELSE Range(QueriedV3(Last(Split(fits_objects[k].exp_type, "_")),
                                       fits_objects[k].tsovisit,
                                       Lower(fits_objects[k].instrume))),
      info |-> <<fits_objects[k].description, fits_objects[k].units,
                 fits_objects[k].level>>,
      member_of |-> fits_objects[k].used_by] : k \in DOMAIN fits_objects}

Out == IF variant = "v2" THEN OutV2 ELSE OutV3

\* The queried tables that have a row for the product's suffix
MatchingTables(o) == {t \in o.queried : o.suffix \in ref_db[t]}

InfoOf(row) == <<row.description, row.units, row.level>>

\* C1: a product for which the resolver ran its queries, and whose suffix
\* has a row in one or more of the queried tables, carries the description,
\* units and level of the LAST of those tables in traversal order - never
\* those of an earlier one.
C1_LastMatchingTableWins ==
    pc = "resolved" =>
        \A o \in Out :
            (o.path \in examined /\ MatchingTables(o) # {}) =>
                o.info = InfoOf(Row(LastInOrder(MatchingTables(o)), o.suffix))

\* instrument miri, suffix cal, rows in image2 and in coron3: coron3's row
C1_Witness ==
    /\ pc = "resolved"
    /\ variant = "v2"
    /\ \E p \in Range(fits_objects) :
          /\ p.fullpath \in examined
          /\ p.instrument = miri
          /\ p.suffix = SUF_cal
          /\ SUF_cal \in ref_db["image2"]
          /\ SUF_cal \in ref_db["coron3"]
          /\ p.description = Row("coron3", SUF_cal).description

\* C2: after add_suffix_info_to_products no product whose suffix matches no
\* row in any queried table is left in the product list, and every product
\* that was dropped is reported.
C2_UnresolvedAreDropped ==
    (pc = "resolved" /\ variant = "v2") =>
        /\ \A o \in OutV2 : MatchingTables(o) # {}
        /\ \A path \in examined :
              (\A o \in OutV2 : o.path # path) =>
                  \E i \in 1..Len(log) :
                      /\ log[i].what = "filetype"
                      /\ log[i].file = Last(Split(path, "/"))

Attached == pc \in {"attached", "resolved"}

\* The associations of the association set that list a file name as a
\* member: by the members each JWSTAssociation holds (v2), by the expname
\* values of the manifest (v3).  Each with its path and its file name.
ListingV2(filename) ==
    {[path |-> a.fullpath, filename |-> a.filename] :
        a \in {x \in Range(asn_objects) : InList(filename, x.members)}}

ListingV3(filename) ==
    {[path |-> k, filename |-> asn_objects[k].filename] :
        k \in {x \in DOMAIN asn_objects :
                 InList(filename, AllMembers(FileAt(fs, x).products))}}

Listing(filename) ==
    IF variant = "v2" THEN ListingV2(filename) ELSE ListingV3(filename)

\* The last of a non-empty set of associations, by path
LastByPath(A) == CHOOSE a \in A : \A b \in A \ {a} : StrLess(b.path, a.path)

\* C3: a product listed by more than one association is attached to the
\* LAST of them in lexicographic order, in both attach steps.
C3_LastAssociationWins ==
    Attached =>
        \A o \in Out :
            Cardinality(Listing(o.filename)) > 1 =>
                o.member_of = LastByPath(Listing(o.filename)).filename

\* member_of of a product no association claims: None (v2), "" (v3)
NoMemberOf == IF variant = "v2" THEN None ELSE <<>>

\* C4: a product is attached to an association only if its file name equals
\* one of that association's member expname values; otherwise member_of is
\* None / empty.
C4_MembershipIsExact ==
    Attached =>
        \A o \in Out :
            \/ o.member_of = NoMemberOf
            \/ \E a \in Listing(o.filename) : a.filename = o.member_of

-----------------------------------------------------------------------------
(* Manifest failures *)

\* A manifest that cannot be read, is not JSON, or lacks the
\* products / members structure
BadManifest(file) ==
    \/ ~file.readable
    \/ ~file.json
    \/ ~file.has_products
    \/ file.products = <<>>

\* C11: when the manifest of an association is unreadable, not valid JSON or
\* lacks the products/members/expname structure, decoding the association
\* does not raise: the record is produced with its filename-derived fields
\* and an empty member set.
C11_ManifestFailureDegrades ==
    (/\ dec.kind = "association"
     /\ AssociationForm(DecSegments)
     /\ BadManifest(dec.file)) =>
        /\ dec.obj.raised = "none"
        /\ dec.obj.members = <<>>

-----------------------------------------------------------------------------
(* The tables the resolvers search *)

BaseTables ==
    <<"detector1", "image2", "spec2", "image3", "spec3", "tso3">>

\* C12: for every product the resolver ran its queries for, the tables
\* queried begin with the six base stage tables detector1, image2, spec2,
\* image3, spec3, tso3, in that order, whatever its instrument, exposure
\* type or time-series flag, in both resolvers.
C12_BaseTablesAlwaysQueried ==
    pc = "resolved" =>
        \A o \in Out :
            o.path \in examined =>
                /\ Len(o.queries) >= Len(BaseTables)
                /\ SubSeq(o.queries, 1, Len(BaseTables)) = BaseTables

\* C13: ami3 is searched exactly when the instrument is 'ami' or 'niriss';
\* coron3 is searched whenever the instrument is 'miri' or 'nircam' and, in
\* the exposure-type-aware resolver, whenever the exposure type is a
\* coronagraphic mode; both are searched when both conditions hold.
C13_ConditionalTables ==
    pc = "resolved" =>
        \A o \in Out :
            o.path \in examined =>
                /\ ("ami3" \in o.queried) <=> (o.instrument \in {ami, niriss})
                /\ (o.instrument \in {miri, nircam}) => "coron3" \in o.queried
                /\ (variant = "v3" /\ o.exp_type \in Coron3Types) =>
                      "coron3" \in o.queried

-----------------------------------------------------------------------------
(* Properties of the product decoder (checked under DecodeSpec) *)

\* Characters a..b of s, counted from 1, both ends included; positions past
\* the end of s are left out.
Chars(s, a, b) ==
    [i \in 1..(IF Min(b, Len(s)) >= a THEN Min(b, Len(s)) - a + 1 ELSE 0) |->
        s[a + i - 1]]

HasDash(seg) == \E i \in 1..Len(seg) : seg[i] = "-"

\* Position of the first '-' of seg at or after position from; Len(seg) + 1
\* if there is none.
DashFrom(seg, from) ==
    IF \E i \in from..Len(seg) : seg[i] = "-"
    THEN CHOOSE i \in from..Len(seg) :
            seg[i] = "-" /\ \A j \in from..(i - 1) : seg[j] # "-"
    ELSE Len(seg) + 1

\* A product record: JWSTProduct() returned, with formatted = true
ProductRecord ==
    /\ dec.kind = "product"
    /\ dec.obj.formatted
    /\ dec.obj.raised = "none"

\* C14: segment 0 without '-' is a fixed-width token: program_id is its
\* characters 3..7, observation number 8..10, visit number 11..13 (counted
\* from 1).  Segment 0 with a '-' gives program_id = the part before the
\* first '-' without its 2-character prefix, and association number = the
\* '-'-separated part after it.
C14_SegmentZero ==
    (dec.kind = "product" /\ dec.obj.formatted) =>
        LET seg == DecSegments[1]
            k == DashFrom(seg, 1)
        IN  IF ~HasDash(seg)
            THEN /\ dec.obj.program_id = Chars(seg, 3, 7)
                 /\ dec.obj.obs_number = Chars(seg, 8, 10)
                 /\ dec.obj.visit_number = Chars(seg, 11, 13)
            ELSE /\ dec.obj.program_id = Chars(seg, 3, k - 1)
                 /\ dec.obj.asn_number =
                        Chars(seg, k + 1, DashFrom(seg, k + 1) - 1)

C14_Witness ==
    /\ ProductRecord
    /\ DecSegments[1] = S0_obs
    /\ dec.obj.program_id = <<"0","0","0","0","1">>
    /\ dec.obj.obs_number = <<"0","0","1">>
    /\ dec.obj.visit_number = <<"0","0","1">>

\* C15: in a formatted product record the association number is present
\* if and only if the observation number and the visit number are both
\* absent: exactly one of the two shapes is populated.
C15_AsnXorObservation ==
    (dec.kind = "product" /\ dec.obj.formatted) =>
        \/ /\ dec.obj.asn_number # None
           /\ dec.obj.obs_number = None
           /\ dec.obj.visit_number = None
        \/ /\ dec.obj.asn_number = None
           /\ dec.obj.obs_number # None
           /\ dec.obj.visit_number # None

C15_Witness ==
    /\ ProductRecord
    /\ DecSegments[1] = S0_asn
    /\ dec.obj.asn_number = <<"o","0","0","1">>
    /\ dec.obj.obs_number = None
    /\ dec.obj.visit_number = None

\* C16: in a formatted product record exactly one of three shapes is
\* populated and the other two are absent: target_id when segment 1 begins
\* with 't', source_id when it begins with 's', otherwise visit_group =
\* its first two characters, parallel_sequence = its third and
\* activity_number = the rest.
C16_SegmentOneShapes ==
    ProductRecord =>
        LET seg == DecSegments[2]
            o == dec.obj
        IN  IF Chars(seg, 1, 1) = <<"t">>
            THEN /\ o.target_id = seg
                 /\ o.source_id = None
                 /\ o.visit_group = None /\ o.parallel_seq = None
                 /\ o.activity_number = None
            ELSE IF Chars(seg, 1, 1) = <<"s">>
            THEN /\ o.source_id = seg
                 /\ o.target_id = None
                 /\ o.visit_group = None /\ o.parallel_seq = None
                 /\ o.activity_number = None
            ELSE /\ o.target_id = None /\ o.source_id = None
                 /\ o.visit_group = Chars(seg, 1, 2)
                 /\ o.parallel_seq = Chars(seg, 3, 3)
                 /\ o.activity_number = Chars(seg, 4, Len(seg))
                 /\ o.visit_group # None /\ o.parallel_seq # None
                 /\ o.activity_number # None

C16_Witness ==
    /\ ProductRecord
    /\ DecSegments[2] = S1_visit
    /\ dec.obj.visit_group = <<"0","1">>
    /\ dec.obj.parallel_seq = <<"1">>
    /\ dec.obj.activity_number = <<"0","1">>
    /\ dec.obj.target_id = None


\* The upper-case form of the letters the detector prefixes are made of
Caps == [m |-> "M", i |-> "I", r |-> "R", n |-> "N", c |-> "C", s |-> "S"]

\* tok begins with the 3-letter prefix p, in any mix of cases
PrefixAnyCase(tok, p) ==
    /\ Len(tok) >= 3
    /\ \A i \in 1..3 : tok[i] = p[i] \/ tok[i] = Caps[p[i]]

DetectorPrefixes ==
    {<<"m","i","r">>, <<"n","r","c">>, <<"n","i","s">>, <<"n","r","s">>}

KnownPrefix(tok) == \E p \in DetectorPrefixes : PrefixAnyCase(tok, p)

InstrumentOf(p) ==
    IF p = <<"m","i","r">> THEN <<"m","i","r","i">>
    ELSE IF p = <<"n","r","c">> THEN <<"n","i","r","c","a","m">>
    ELSE IF p = <<"n","i","s">> THEN <<"n","i","r","i","s","s">>
    ELSE <<"n","i","r","s","p","e","c">>

\* The detector token the inference looks at: segment 3 of the file name,
\* or the placeholder N/A of an association-derived product.
DetectorToken ==
    IF dec.obj.asn_number \notin {None, <<>>} THEN <<"N","/","A">>
    ELSE DecSegments[4]

\* The instrument decoded from segment 2: None when it is all digits
InstrumentFromSegment2 ==
    IF DecSegments[3] # <<>> /\ AllDigits(DecSegments[3]) THEN None
    ELSE DecSegments[3]

\* C17: detector-prefix inference is total and case-insensitive: a detector
\* token beginning with mir / nrc / nis / nrs sets the instrument to miri /
\* nircam / niriss / nirspec, overriding the instrument decoded from
\* segment 2; any other token gives detector = None and leaves the
\* instrument as decoded from segment 2.
C17_DetectorInference ==
    ProductRecord =>
        /\ \A p \in DetectorPrefixes :
              PrefixAnyCase(DetectorToken, p) =>
                  dec.obj.instrument = InstrumentOf(p)
        /\ ~KnownPrefix(DetectorToken) =>
              /\ dec.obj.detector = None
              /\ dec.obj.instrument = InstrumentFromSegment2

C17_Witness ==
    /\ ProductRecord
    /\ DecSegments[3] = S2_nircam
    /\ DecSegments[4] = S3_NRS1
    /\ dec.obj.instrument = <<"n","i","r","s","p","e","c">>

\* C18 as claimed: a detector token with a known prefix sets the instrument
\* and the raw detector token is cleared to None.
C18_KnownPrefixClearsDetector ==
    (ProductRecord /\ KnownPrefix(DetectorToken)) =>
        /\ \E p \in DetectorPrefixes :
              /\ PrefixAnyCase(DetectorToken, p)
              /\ dec.obj.instrument = InstrumentOf(p)
        /\ dec.obj.detector = None

\* C18 amended: a detector token with a known prefix sets the instrument
\* and the raw detector token is kept as the record's detector.
C18_KnownPrefixKeepsDetector ==
    (ProductRecord /\ KnownPrefix(DetectorToken)) =>
        /\ \E p \in DetectorPrefixes :
              /\ PrefixAnyCase(DetectorToken, p)
              /\ dec.obj.instrument = InstrumentOf(p)
        /\ dec.obj.detector = DetectorToken

C18_Witness ==
    /\ ProductRecord
    /\ DecSegments[4] = S3_nrca1
    /\ dec.obj.detector = S3_nrca1
    /\ dec.obj.instrument = <<"n","i","r","c","a","m">>

\* Segments 3..n-2 of the file name (all but the first three and the last)
MiddleSegments == SubSeq(DecSegments, 4, Len(DecSegments) - 1)

\* C19: a formatted product whose segment 0 contains '-' (also with nothing
\* after the '-') has optical_elements populated from segments 3..n-2 and
\* takes no raw detector token from the file name; a product whose segment
\* 0 has no '-' has no optical_elements and its raw detector token is
\* segment 3.
C19_OpticalElementsOrDetector ==
    ProductRecord =>
        IF HasDash(DecSegments[1])
        THEN /\ dec.obj.optical_elements # None
             /\ \A i \in 1..Len(MiddleSegments) :
                   Contains(dec.obj.optical_elements, MiddleSegments[i])
             /\ dec.obj.detector = None
        ELSE /\ dec.obj.optical_elements = None
             /\ dec.obj.detector =
                   (IF KnownPrefix(DecSegments[4]) THEN DecSegments[4] ELSE None)

-----------------------------------------------------------------------------
(* Partition by program (checked under Spec) *)

\* The surviving products: the rows of the products table, each with its
\* file and the program value observed for it.
Survivors == Range(mem_db.products.rows)

\* The buckets a file appears in
BucketsOf(file) ==
    {p \in DOMAIN results : file \in Range(results[p].products)}

\* C20: after the run there is exactly one bucket per distinct program value
\* observed among the surviving products, and every surviving product is in
\* exactly one bucket, the one of its own program: none is left out.
C20_PartitionByProgram ==
    pc = "done" =>
        /\ DOMAIN results = {row.program : row \in Survivors}
        /\ \A row \in Survivors : BucketsOf(row.file) = {row.program}

-----------------------------------------------------------------------------
(* Associations without a program bucket *)

\* The association rows of the store whose program has no bucket
Unbucketed ==
    {row \in Range(mem_db.associations.rows) : row.program \notin DOMAIN results}

\* A log entry names the row when it carries its file or its program
Reported(row) ==
    \E i \in 1..Len(log) : log[i].file \in {row.file, row.program}

\* C21: once the program tables are built, every association whose program
\* equals no program bucket (no surviving product has that program) has been
\* reported in the log, and the run has ended normally.
C21_UnbucketedAssociationsReported ==
    pc = "done" => \A row \in Unbucketed : Reported(row)

-----------------------------------------------------------------------------
(* A missing directory *)

\* C22: when the directory to scan does not exist the run is aborted by the
\* file search itself: no association and no product is ever decoded, no
\* reference table is queried and nothing is written to the output store.
C22_MissingDirectoryAborts ==
    ~fs.exists =>
        /\ pc \in {"start", "aborted"}
        /\ asn_objects = <<>> /\ fits_objects = <<>>
        /\ examined = {}
        /\ mem_db = NoTables /\ results = <<>>

C22_Witness == ~fs.exists /\ pc = "aborted" /\ files = None

-----------------------------------------------------------------------------
(* Reaching the final step *)

\* C23: a run over an existing directory never aborts part-way, whatever its
\* files are: malformed names, unreadable manifests and unresolved suffixes
\* are passed over and the run goes on to the per-program partition.
C23_RunNeverAbortsPartWay ==
    fs.exists => pc # "aborted"

-----------------------------------------------------------------------------
(* Unformatted records *)

\* C25: at every point of a v2 run the association list used for membership
\* matching and the product list handed to membership attach, suffix
\* resolution and the output hold only records with formatted = TRUE.
C25_OnlyFormattedRecords ==
    variant = "v2" =>
        /\ \A i \in 1..Len(asn_objects) : asn_objects[i].formatted
        /\ \A i \in 1..Len(fits_objects) : fits_objects[i].formatted

\* A run that has gone through every phase although the directory held a
\* product name and an association name that do not decode.
C25_Witness ==
    /\ variant = "v2" /\ pc = "done"
    /\ \E p \in Range(files.fits) : ~JWSTProduct(p).formatted
    /\ \E a \in Range(files.asn) : ~JWSTAssociation(a, FileAt(fs, a)).formatted
    /\ Len(fits_objects) > 0 /\ Len(asn_objects) > 0

-----------------------------------------------------------------------------
(* What the enrichment steps change *)

\* The record is as at creation in its membership / its suffix metadata
NoMembershipYet(p) == p.member_of = None
NoSuffixInfoYet(p) == p.description = None /\ p.units = None /\ p.level = None

\* q is p but for member_of / but for description, units and level
OnlyMemberOfChanged(p, q) == q = [p EXCEPT !.member_of = q.member_of]
OnlySuffixInfoChanged(p, q) ==
    q = [p EXCEPT !.description = q.description, !.units = q.units,
                  !.level = q.level]

\* One step of a v2 run, for a product that is in the list before and after
FrameStep(p, q) ==
    CASE pc = "products" -> NoMembershipYet(p) /\ NoSuffixInfoYet(p)
                            /\ OnlyMemberOfChanged(p, q)
      [] pc = "attached" -> NoSuffixInfoYet(p) /\ OnlySuffixInfoChanged(p, q)
      [] OTHER -> q = p

\* C26: after creation a product record is changed by the two enrichment
\* steps only; membership attach changes nothing but member_of and suffix
\* attach nothing but description, units and level, each of them None from
\* creation until its step; every other field stays as decoded.
C26_EnrichmentFrame ==
    [][variant = "v2" =>
        \A i \in 1..Len(fits_objects) : \A j \in 1..Len(fits_objects') :
            fits_objects[i].fullpath = fits_objects'[j].fullpath =>
                FrameStep(fits_objects[i], fits_objects'[j])]_vars

\* Both steps have run and each has written to some product.
C26_Witness ==
    /\ variant = "v2" /\ pc = "resolved"
    /\ \E i \in 1..Len(fits_objects) :
        ~NoMembershipYet(fits_objects[i]) /\ ~NoSuffixInfoYet(fits_objects[i])

-----------------------------------------------------------------------------
(* The resolution pass over its input list *)

\* The product is in the list with the metadata of its authoritative row
ResolvedIn(objects, p) ==
    LET matches == Matches(QueriedV2(p), p.suffix, ref_db)
    IN  \E j \in 1..Len(objects) :
            /\ objects[j].fullpath = p.fullpath
            /\ <<objects[j].description, objects[j].units, objects[j].level>>
                   = InfoOf(Row(Pipeline(matches), p.suffix))

\* C27: add_suffix_info_to_products examines every product of its input list
\* once: each product with at least one matching table is in the output with
\* description, units and level of its authoritative row, also when the
\* product just before it in the list was dropped as unresolved.
C27_EveryInputProductResolved ==
    [][(variant = "v2" /\ pc = "attached") =>
        \A i \in 1..Len(fits_objects) :
            Len(Matches(QueriedV2(fits_objects[i]), fits_objects[i].suffix,
                        ref_db)) > 0
                => ResolvedIn(fits_objects', fits_objects[i])]_vars

-----------------------------------------------------------------------------
(* The exposure-type-aware resolver's output *)

\* The dict entry has its suffix metadata
Populated(product) ==
    /\ product.description # Unset
    /\ product.units # Unset
    /\ product.level # Unset

\* C28: after add_suffix_info_to_dict every product left in the product set
\* has description, units and level populated; a product whose exposure-type
\* header is missing or empty is not left in the set without them.
C28_RemainingArePopulated ==
    (variant = "v3" /\ pc = "resolved") =>
        \A k \in DOMAIN fits_objects : Populated(fits_objects[k])

=============================================================================
